---------------------------- MODULE Spec2Model ----------------------------
(***************************************************************************)
(* A model of the RadGraph demo: radgraph_runner.py (Hugging Face login,   *)
(* model loading, inference with output normalisation) and the Annotate    *)
(* handler of app.py.                                                      *)
(*                                                                         *)
(* Python values are records [t, kind, doc, msg, e]:                       *)
(*   t    the Python type: "dict", "list", "tuple", "str", "obj", "none"   *)
(*   kind for a dict, which keys it has: "ann" (a model annotation),       *)
(*        "err" ({"error":..,"input":..}), "raw" ({"raw": ..}),            *)
(*        "proc" (a value of get_radgraph_processed_annotations);          *)
(*        for a str, its text                                              *)
(*   doc  the report the value was computed from ("" when none, "*" when   *)
(*        it covers the whole batch); for an "err" dict, its 'input'       *)
(*   msg  for an "err" dict, its 'error'                                   *)
(*   e    the elements of a list or tuple, the wrapped value of a "raw"    *)
(*        dict                                                             *)
(***************************************************************************)
EXTENDS Integers, Sequences, FiniteSets, TLC

\* ------------------------------------------------------------------ bounds
MaxReports == 2
MaxPresses == 2

\* ------------------------------------------------------------ Python values
PyDict(kind, doc, msg, e) == [t |-> "dict", kind |-> kind, doc |-> doc, msg |-> msg, e |-> e]
AnnDict(doc) == PyDict("ann", doc, "", <<>>)
PyList(doc, e) == [t |-> "list", kind |-> "", doc |-> doc, msg |-> "", e |-> e]
PyTuple(doc, e) == [t |-> "tuple", kind |-> "", doc |-> doc, msg |-> "", e |-> e]
PyStr(doc, text) == [t |-> "str", kind |-> text, doc |-> doc, msg |-> "", e |-> <<>>]
PyObj == [t |-> "obj", kind |-> "", doc |-> "", msg |-> "", e |-> <<>>]
PyNone == [t |-> "none", kind |-> "", doc |-> "", msg |-> "", e |-> <<>>]

\* isinstance(v, dict)
IsDict(v) == v.t = "dict"

\* The characters of the texts the model's strings hold.
StrChars(text) ==
    CASE text = "ab" -> <<"a", "b">>
      [] text = "" -> <<>>
      [] OTHER -> <<text>>

\* What `for ro in v` yields; a dict is never iterated here (it was wrapped).
IsIterable(v) == v.t \in {"list", "tuple", "str"}

Iter(v) ==
    IF v.t = "str"
    THEN [i \in 1..Len(StrChars(v.kind)) |-> PyStr(v.doc, StrChars(v.kind)[i])]
    ELSE v.e

\* ------------------------------------------------------------------- state
VARIABLES
    \* annotate_reports / normalize_radgraph_outputs
    op,          \* which function ran last: "", "annotate", "normalize"
    reports,     \* the argument `reports`
    listCall,    \* what radgraph_model(reports) did
    eachCall,    \* what radgraph_model(r) did, per report (fallback only)
    rawOutputs,  \* raw_outputs as handed to normalize_radgraph_outputs
    helperAvail, \* whether get_radgraph_processed_annotations imports
    helperOut,   \* what the helper did, per item
    calls,       \* the invocations of radgraph_model, in order
    result,      \* the returned list
    raised       \* "" or the exception that left the function

annVars == <<op, reports, listCall, eachCall, rawOutputs, helperAvail, helperOut,
             calls, result, raised>>

VARIABLES
    \* ensure_hf_auth / load_radgraph_model
    environ,     \* os.environ: the three token variables and RADGRAPH_MODEL_ID
    fn,          \* which function ran last: "", "ensure_hf_auth", "load_radgraph_model"
    loaded       \* what the last call did (see load_radgraph_model)

authVars == <<environ, fn, loaded>>

VARIABLES
    \* app.py
    model_type,  \* the sidebar text input
    report_text, \* the text area
    show_raw,    \* the sidebar checkbox
    presses,     \* how often Annotate was pressed
    ran,         \* whether this run of the script is one with annotate_btn set
    status,      \* "", "warning", "error", "success": how the handler ended
    ctorArgs,    \* the model_type arguments RadGraph(...) got in this run
    modelCalls,  \* the invocations of the model object in this run
    cache        \* st.cache_resource: the model_type values with a cached model

appVars == <<model_type, report_text, show_raw, presses, ran, status, ctorArgs,
             modelCalls, cache>>

VARIABLES
    \* _extract_entities_relations
    out,         \* its argument
    xpc,         \* "ready" or "done"
    extracted    \* what it did: [raised, ents, rels]

exVars == <<out, xpc, extracted>>

vars == <<annVars, authVars, appVars, exVars>>

Report == {"r1", "r2"}
ExcMsg == {"boom", "oom"}

RECURSIVE SeqsUpTo(_, _)
SeqsUpTo(S, n) ==
    IF n = 0 THEN {<<>>}
    ELSE SeqsUpTo(S, n - 1) \cup
         {Append(s, x) : s \in {q \in SeqsUpTo(S, n - 1) : Len(q) = n - 1}, x \in S}

ReportLists == SeqsUpTo(Report, MaxReports)

\* An outcome of a call: it raises msg, or returns val.
Raises(m) == [raises |-> TRUE, msg |-> m, val |-> PyNone]
Returns(v) == [raises |-> FALSE, msg |-> "", val |-> v]
NotCalled == [raises |-> FALSE, msg |-> "", val |-> PyNone]


\* ------------------------------------------------- the model and the helper
\* What radgraph_model(reports) may do: raise, or return one of the shapes
\* the wrapper variants return.
ModelListReturns(rs) ==
    LET anns == [i \in 1..Len(rs) |-> AnnDict(rs[i])]
    IN  { AnnDict("*"),
          PyList("*", anns),
          PyTuple("*", anns),
          PyTuple("*", <<PyObj, PyList("*", anns)>>),
          PyList("*", <<PyObj, PyList("*", anns)>>),
          PyList("*", <<>>),
          PyStr("*", "ab"),
          PyObj }

ListOutcomes(rs) ==
    {Raises(m) : m \in ExcMsg} \cup {Returns(v) : v \in ModelListReturns(rs)}

\* What radgraph_model(r) may do for one report r.
ModelStrReturns(r) ==
    { AnnDict(r),
      PyList(r, <<AnnDict(r)>>),
      PyTuple(r, <<PyObj, PyList(r, <<AnnDict(r)>>)>>),
      PyStr(r, "ab") }

StrOutcomes(r) ==
    {Raises(m) : m \in ExcMsg} \cup {Returns(v) : v \in ModelStrReturns(r)}

\* What get_radgraph_processed_annotations(ro) may do when it imports: raise,
\* or return a value (a dict, or with another variant of the package a list).
HelperOutcome == {"raise", "dict", "list"}

HelperValue(o, ro) ==
    IF o = "dict" THEN PyDict("proc", ro.doc, "", <<>>) ELSE PyList(ro.doc, <<ro>>)

\* --------------------------------------------- normalize_radgraph_outputs
\* Lines 87-96: the shape recovery before the loop.
ReshapeRaw(raw_outputs) ==
    LET s1 == IF IsDict(raw_outputs) THEN PyList(raw_outputs.doc, <<raw_outputs>>)
              ELSE raw_outputs
        s2 == IF s1.t = "tuple" /\ Len(s1.e) = 2 /\ s1.e[2].t \in {"list", "tuple"}
              THEN PyList(s1.doc, s1.e[2].e)
              ELSE s1
        s3 == IF /\ s2.t = "list"
                 /\ Len(s2.e) = 2
                 /\ ~IsDict(s2.e[1])
                 /\ s2.e[2].t = "list"
              THEN PyList(s2.doc, s2.e[2].e)
              ELSE s2
    IN  s3

\* Lines 114-119: the fallback of one loop iteration.
WrapItem(ro) == IF IsDict(ro) THEN ro ELSE PyDict("raw", ro.doc, "", <<ro>>)

\* Lines 99-119: one loop iteration; o is what the helper did for ro
\* ("absent" when its import failed).
ProcessItem(ro, o) ==
    IF o \in {"dict", "list"} THEN HelperValue(o, ro) ELSE WrapItem(ro)

\* The whole function: [raised, val], val the list `processed`.
normalize_radgraph_outputs(raw_outputs, hout) ==
    LET s == ReshapeRaw(raw_outputs)
    IN  IF ~IsIterable(s)
        THEN [raised |-> "TypeError", val |-> <<>>]
        ELSE [raised |-> "",
              val |-> [i \in 1..Len(Iter(s)) |-> ProcessItem(Iter(s)[i], hout[i])]]

\* The helper's outcomes for the items of one call of normalize.
HelperOutcomes(raw_outputs, avail) ==
    LET s == ReshapeRaw(raw_outputs)
        n == IF IsIterable(s) THEN Len(Iter(s)) ELSE 0
    IN  IF avail THEN [1..n -> HelperOutcome] ELSE {[i \in 1..n |-> "absent"]}

\* ------------------------------------------------------- annotate_reports
ErrDict(m, r) == PyDict("err", r, m, <<>>)

\* A faulty variant: the two values of the error dict are swapped.
FallbackItem_Swapped(o, r) == IF o.raises THEN ErrDict(r, o.msg) ELSE o.val

\* Lines 134-138: one iteration of the per-string fallback.
FallbackItem(o, r) == IF o.raises THEN ErrDict(o.msg, r) ELSE o.val

\* Lines 128-138: raw_outputs, from what the model did.
RawOutputs(rs, lc, ec) ==
    IF lc.raises
    THEN PyList("", [i \in 1..Len(rs) |-> FallbackItem(ec[i], rs[i])])
    ELSE lc.val

CallList == [kind |-> "list", text |-> ""]
CallStr(r) == [kind |-> "str", text |-> r]

\* Lines 129, 135: the invocations of radgraph_model.
ModelCalls(rs, lc) ==
    IF lc.raises THEN <<CallList>> \o [i \in 1..Len(rs) |-> CallStr(rs[i])]
    ELSE <<CallList>>

EachOutcomes(rs, lc) ==
    IF lc.raises
    THEN {ec \in [1..Len(rs) -> UNION {StrOutcomes(r) : r \in Report}] :
            \A i \in 1..Len(rs) : ec[i] \in StrOutcomes(rs[i])}
    ELSE {[i \in 1..Len(rs) |-> NotCalled]}

AnnotateReports ==
    /\ op = ""
    /\ \E lc \in ListOutcomes(reports), avail \in BOOLEAN :
         \E ec \in EachOutcomes(reports, lc) :
           LET raw == RawOutputs(reports, lc, ec)
           IN  \E hout \in HelperOutcomes(raw, avail) :
                 LET n == normalize_radgraph_outputs(raw, hout)
                 IN  /\ op' = "annotate"
                     /\ listCall' = lc
                     /\ eachCall' = ec
                     /\ rawOutputs' = raw
                     /\ helperAvail' = avail
                     /\ helperOut' = hout
                     /\ calls' = ModelCalls(reports, lc)
                     /\ result' = n.val
                     /\ raised' = n.raised
    /\ UNCHANGED reports

\* normalize_radgraph_outputs called on its own.
MaxItems == 2
Item == { AnnDict("r1"), ErrDict("boom", "r1"), PyStr("r1", "ab"), PyObj,
          PyList("r1", <<AnnDict("r1")>>) }

RawInputs ==
    {PyList("", s) : s \in SeqsUpTo(Item, MaxItems)} \cup
    {PyTuple("", s) : s \in SeqsUpTo(Item, MaxItems)} \cup
    {AnnDict("r1"), PyStr("", "ab"), PyObj}

NormalizeOutputs ==
    /\ op = ""
    /\ \E raw \in RawInputs, avail \in BOOLEAN :
         \E hout \in HelperOutcomes(raw, avail) :
           LET n == normalize_radgraph_outputs(raw, hout)
           IN  /\ op' = "normalize"
               /\ rawOutputs' = raw
               /\ helperAvail' = avail
               /\ helperOut' = hout
               /\ result' = n.val
               /\ raised' = n.raised
    /\ UNCHANGED <<reports, listCall, eachCall, calls>>

\* The caller comes back with another list of reports.
NextCall ==
    /\ op # ""
    /\ \E rs \in ReportLists : reports' = rs
    /\ op' = ""
    /\ listCall' = NotCalled
    /\ eachCall' = <<>>
    /\ rawOutputs' = PyNone
    /\ helperAvail' = FALSE
    /\ helperOut' = <<>>
    /\ calls' = <<>>
    /\ result' = <<>>
    /\ raised' = ""

InitAnnotateVars ==
    /\ op = ""
    /\ reports \in ReportLists
    /\ listCall = NotCalled
    /\ eachCall = <<>>
    /\ rawOutputs = PyNone
    /\ helperAvail = FALSE
    /\ helperOut = <<>>
    /\ calls = <<>>
    /\ result = <<>>
    /\ raised = ""

\* ------------------------------------------------------- ensure_hf_auth
\* os.environ.get(name) gives None for a variable that is not set.
Unset == "<None>"
TokenVal == {Unset, "", "tokA", "tokB"}
ModelIdVal == {Unset, "env-model"}

Environ ==
    [HUGGINGFACEHUB_API_TOKEN : TokenVal, HF_TOKEN : TokenVal,
     HUGGINGFACE_TOKEN : TokenVal, RADGRAPH_MODEL_ID : ModelIdVal]

\* Python truth of a str-or-None, and `a or b`.
Truthy(v) == v \notin {Unset, ""}
PyOr(a, b) == IF Truthy(a) THEN a ELSE b

\* Line 34.
EnvToken(env) ==
    PyOr(PyOr(env.HUGGINGFACEHUB_API_TOKEN, env.HF_TOKEN), env.HUGGINGFACE_TOKEN)

\* A faulty variant: the except clause of lines 42-44 is missing.
ensure_hf_auth_NoExcept(env, loginRaises) ==
    IF ~Truthy(EnvToken(env))
    THEN [raised |-> "", ret |-> FALSE, logins |-> <<>>]
    ELSE IF loginRaises
         THEN [raised |-> "LoginError", ret |-> FALSE, logins |-> <<EnvToken(env)>>]
         ELSE [raised |-> "", ret |-> TRUE, logins |-> <<EnvToken(env)>>]

\* Lines 29-44: [raised, ret, logins], logins the tokens hf_login was given.
ensure_hf_auth(env, loginRaises) ==
    IF ~Truthy(EnvToken(env))
    THEN [raised |-> "", ret |-> FALSE, logins |-> <<>>]
    ELSE IF loginRaises
         THEN [raised |-> "", ret |-> FALSE, logins |-> <<EnvToken(env)>>]
         ELSE [raised |-> "", ret |-> TRUE, logins |-> <<EnvToken(env)>>]

\* --------------------------------------------------- load_radgraph_model
\* Line 46: the parameters of load_radgraph_model.
LoadParams == {"model_id"}

\* Python's binding of one argument passed positionally (kw = "") or by the
\* keyword kw: an unknown keyword is a TypeError before the body runs.
Binds(kw, params) == kw = "" \/ kw \in params

\* The default of line 56.
DefaultModelId == "modern-radgraph-xl"

NoLoad ==
    [raised |-> "", authRet |-> FALSE, logins |-> <<>>, loginRaises |-> FALSE,
     importRaises |-> FALSE, ctorRaises |-> FALSE, entered |-> FALSE,
     importTried |-> FALSE, ctorArgs |-> <<>>, model |-> ""]

\* Lines 46-73, called with one argument arg (Unset for None) passed by the
\* keyword kw. entered: the body ran; importTried: line 61 ran; ctorArgs: the
\* model_type values RadGraph(...) was given; model: the model_type of the
\* wrapper returned ("" when none was). ensure_hf_auth's result is dropped
\* (line 53); an exception out of it would leave the function there.
load_radgraph_model(kw, arg, env, loginRaises, importRaises, ctorRaises) ==
    LET auth == ensure_hf_auth(env, loginRaises)
        model_id == IF arg = Unset
                    THEN (IF env.RADGRAPH_MODEL_ID = Unset THEN DefaultModelId
                          ELSE env.RADGRAPH_MODEL_ID)
                    ELSE arg
        base == [NoLoad EXCEPT !.loginRaises = loginRaises,
                               !.importRaises = importRaises,
                               !.ctorRaises = ctorRaises]
    IN  IF ~Binds(kw, LoadParams)
        THEN [base EXCEPT !.raised = "TypeError"]
        ELSE IF auth.raised # ""
        THEN [base EXCEPT !.raised = auth.raised, !.entered = TRUE,
                          !.logins = auth.logins]
        ELSE IF importRaises
        THEN [base EXCEPT !.raised = "ImportError", !.entered = TRUE,
                          !.authRet = auth.ret, !.logins = auth.logins,
                          !.importTried = TRUE]
        ELSE IF ctorRaises
        THEN [base EXCEPT !.raised = "InitError", !.entered = TRUE,
                          !.authRet = auth.ret, !.logins = auth.logins,
                          !.importTried = TRUE, !.ctorArgs = <<model_id>>]
        ELSE [base EXCEPT !.entered = TRUE,
                          !.authRet = auth.ret, !.logins = auth.logins,
                          !.importTried = TRUE, !.ctorArgs = <<model_id>>,
                          !.model = model_id]

EnsureHfAuth ==
    /\ \E loginRaises \in BOOLEAN :
         LET a == ensure_hf_auth(environ, loginRaises)
         IN  loaded' = [NoLoad EXCEPT !.raised = a.raised, !.authRet = a.ret,
                                      !.logins = a.logins,
                                      !.loginRaises = loginRaises, !.entered = TRUE]
    /\ fn' = "ensure_hf_auth"
    /\ UNCHANGED environ

ModelIdArg == {Unset, "my-model"}

LoadRadgraphModel ==
    /\ \E kw \in {"", "model_id"}, arg \in ModelIdArg,
          loginRaises \in BOOLEAN, importRaises \in BOOLEAN, ctorRaises \in BOOLEAN :
         loaded' = load_radgraph_model(kw, arg, environ, loginRaises, importRaises,
                                       ctorRaises)
    /\ fn' = "load_radgraph_model"
    /\ UNCHANGED environ

\* The environment changes between calls.
SetEnviron ==
    /\ \E env \in Environ : environ' = env
    /\ fn' = ""
    /\ loaded' = NoLoad

\* ------------------------------------------------ app.py: the Annotate run
\* The values the sidebar field and the text area take; the field starts at
\* "modern-radgraph-xl" (line 26).
SidebarDefault == "modern-radgraph-xl"
SidebarValue == {SidebarDefault, "stanfordaimi/modern-radgraph-xl", ""}
ReportText == {"", " ", "r1", "r2"}

\* str.strip() on those texts.
Strip(text) == IF text = " " THEN "" ELSE text

\* Lines 56-58: _get_model under st.cache_resource; a cached wrapper is
\* returned without a call, anything else goes to
\* load_radgraph_model(model_type=model_type_param).
GetModel(mt, cached, env) ==
    IF mt \in cached
    THEN {[NoLoad EXCEPT !.model = mt]}
    ELSE {load_radgraph_model("model_type", mt, env, l, i, c) :
            l \in BOOLEAN, i \in BOOLEAN, c \in BOOLEAN}

\* Lines 71-160 once a wrapper is there: annotate_reports on [report_text],
\* outputs[0], the display and the download. tail: whether something after
\* outputs[0] raised.
AfterLoad(g, mt, rt, cached) ==
    LET rs == <<rt>>
    IN  UNION { UNION { UNION {
          { LET n == normalize_radgraph_outputs(RawOutputs(rs, lc, ec), hout)
            IN  [status |-> IF n.raised # "" \/ Len(n.val) = 0 \/ tail
                            THEN "error" ELSE "success",
                 ctorArgs |-> g.ctorArgs,
                 modelCalls |-> ModelCalls(rs, lc),
                 cache |-> cached \cup {mt}] : tail \in BOOLEAN }
          : hout \in UNION {HelperOutcomes(RawOutputs(rs, lc, ec), a) : a \in BOOLEAN} }
          : ec \in EachOutcomes(rs, lc) }
          : lc \in ListOutcomes(rs) }

\* Lines 60-163: the run of the script with annotate_btn set.
HandlerOutcomes(mt, rt, cached, env) ==
    IF Strip(rt) = ""
    THEN {[status |-> "warning", ctorArgs |-> <<>>, modelCalls |-> <<>>,
           cache |-> cached]}
    ELSE UNION {
           IF g.raised # ""
           THEN {[status |-> "error", ctorArgs |-> g.ctorArgs, modelCalls |-> <<>>,
                  cache |-> cached]}
           ELSE AfterLoad(g, mt, rt, cached)
           : g \in GetModel(mt, cached, env) }

PressAnnotate ==
    /\ presses < MaxPresses
    /\ presses' = presses + 1
    /\ ran' = TRUE
    /\ \E o \in HandlerOutcomes(model_type, report_text, cache, environ) :
         /\ status' = o.status
         /\ ctorArgs' = o.ctorArgs
         /\ modelCalls' = o.modelCalls
         /\ cache' = o.cache
    /\ UNCHANGED <<model_type, report_text, show_raw>>

\* Any other widget change reruns the script with annotate_btn unset: the
\* handler is skipped and the placeholders stay empty.
Rerun ==
    /\ ran' = FALSE
    /\ status' = ""
    /\ ctorArgs' = <<>>
    /\ modelCalls' = <<>>
    /\ UNCHANGED <<presses, cache>>

EditModelType ==
    /\ \E mt \in SidebarValue \ {model_type} : model_type' = mt
    /\ Rerun
    /\ UNCHANGED <<report_text, show_raw>>

EditReport ==
    /\ \E rt \in ReportText \ {report_text} : report_text' = rt
    /\ Rerun
    /\ UNCHANGED <<model_type, show_raw>>

ToggleShowRaw ==
    /\ show_raw' = ~show_raw
    /\ Rerun
    /\ UNCHANGED <<model_type, report_text>>

\* ------------------------------------------ _extract_entities_relations
\* The model output handed to it: [t, hasEntities, entities, hasRelations,
\* relations]; t its Python type, has*: whether the dict has the key.
\* entities is [t, items], items the (id, value) pairs of a dict in order;
\* relations is [t, items], items the elements of a list. A key a dict does
\* not have, and None, are Unset.
MaxEnts == 2
MaxRels == 2

EdDict(text, tokens, tokens_text, label, start, end) ==
    [t |-> "dict", text |-> text, tokens |-> tokens, tokens_text |-> tokens_text,
     label |-> label, start |-> start, end |-> end]
EdStr == [t |-> "str", text |-> "heart", tokens |-> Unset, tokens_text |-> Unset,
          label |-> Unset, start |-> Unset, end |-> Unset]

Ed == { EdDict("heart", Unset, Unset, "ANAT", "0", "5"),
        EdDict(Unset, "size", Unset, "", Unset, Unset),
        EdDict(Unset, Unset, Unset, Unset, Unset, Unset),
        EdStr }

EntityId == <<"1", "2", "3", "4">>

RelRec(t, source, from, head, arg1, target, to, tail, arg2, label, type, e) ==
    [t |-> t, source |-> source, from |-> from, head |-> head, arg1 |-> arg1,
     target |-> target, to |-> to, tail |-> tail, arg2 |-> arg2,
     label |-> label, type |-> type, e |-> e]
RelSeq(t, e) ==
    RelRec(t, Unset, Unset, Unset, Unset, Unset, Unset, Unset, Unset, Unset, Unset, e)

Rel == { RelRec("dict", "1", Unset, Unset, Unset, "2", Unset, Unset, Unset,
                "located_at", Unset, <<>>),
         RelRec("dict", Unset, "", Unset, "1", Unset, "2", Unset, Unset,
                Unset, "modify", <<>>),
         RelSeq("list", <<"1", "2", "suggestive_of">>),
         RelSeq("tuple", <<"1", "2">>),
         RelSeq("str", <<>>) }

EntitiesVal ==
    {[t |-> "dict", items |-> [i \in 1..Len(s) |-> [id |-> EntityId[i], ed |-> s[i]]]]
        : s \in SeqsUpTo(Ed, MaxEnts)}
    \cup {[t |-> "list", items |-> <<>>]}

RelationsVal ==
    {[t |-> "list", items |-> s] : s \in SeqsUpTo(Rel, MaxRels)}
    \cup {[t |-> "dict", items |-> <<>>]}

NoEntities == [t |-> "none", items |-> <<>>]

ExtractInput ==
    {[t |-> "dict", hasEntities |-> TRUE, entities |-> en,
      hasRelations |-> TRUE, relations |-> re] : en \in EntitiesVal, re \in RelationsVal}
    \cup {[t |-> "dict", hasEntities |-> FALSE, entities |-> NoEntities,
           hasRelations |-> TRUE, relations |-> re] : re \in RelationsVal}
    \cup {[t |-> "dict", hasEntities |-> TRUE, entities |-> en,
           hasRelations |-> FALSE, relations |-> NoEntities] : en \in EntitiesVal}
    \cup {[t |-> ty, hasEntities |-> FALSE, entities |-> NoEntities,
           hasRelations |-> FALSE, relations |-> NoEntities] : ty \in {"dict", "str", "list"}}

\* Lines 93-105: the row of one entity; ed is a dict here.
EntityRow(eid, ed) ==
    [id |-> eid,
     text |-> PyOr(PyOr(PyOr(ed.text, ed.tokens), ed.tokens_text), ""),
     label |-> PyOr(ed.label, ""),
     start |-> ed.start,
     end |-> ed.end]

\* Lines 108-117: the rows of the relations, skipping what is neither a dict
\* nor a list or tuple of three or more.
RECURSIVE RelationRows(_)
RelationRows(items) ==
    IF items = <<>> THEN <<>>
    ELSE LET r == Head(items)
             row == IF r.t = "dict"
                    THEN <<[source |-> PyOr(PyOr(PyOr(r.source, r.from), r.head), r.arg1),
                            target |-> PyOr(PyOr(PyOr(r.target, r.to), r.tail), r.arg2),
                            label |-> PyOr(PyOr(r.label, r.type), "")]>>
                    ELSE IF r.t \in {"list", "tuple"} /\ Len(r.e) >= 3
                    THEN <<[source |-> r.e[1], target |-> r.e[2], label |-> r.e[3]]>>
                    ELSE <<>>
         IN  row \o RelationRows(Tail(items))

\* Lines 87-119: [raised, ents, rels]. ed.get on a value that is no dict is
\* an AttributeError, which nothing in the function catches.
extract_entities_relations(o) ==
    LET useEnts == o.t = "dict" /\ o.hasEntities /\ o.entities.t = "dict"
        useRels == o.t = "dict" /\ o.hasRelations /\ o.relations.t = "list"
        items == IF useEnts THEN o.entities.items ELSE <<>>
    IN  IF \E i \in 1..Len(items) : items[i].ed.t # "dict"
        THEN [raised |-> "AttributeError", ents |-> <<>>, rels |-> <<>>]
        ELSE [raised |-> "",
              ents |-> [i \in 1..Len(items) |-> EntityRow(items[i].id, items[i].ed)],
              rels |-> IF useRels THEN RelationRows(o.relations.items) ELSE <<>>]

NotExtracted == [raised |-> "", ents |-> <<>>, rels |-> <<>>]

Extract ==
    /\ xpc = "ready"
    /\ extracted' = extract_entities_relations(out)
    /\ xpc' = "done"
    /\ UNCHANGED out

NextOutput ==
    /\ xpc = "done"
    /\ \E o \in ExtractInput : out' = o
    /\ xpc' = "ready"
    /\ extracted' = NotExtracted

\* ------------------------------------------------------- specifications
IdleAnnotate ==
    /\ op = ""
    /\ reports = <<>>
    /\ listCall = NotCalled
    /\ eachCall = <<>>
    /\ rawOutputs = PyNone
    /\ helperAvail = FALSE
    /\ helperOut = <<>>
    /\ calls = <<>>
    /\ result = <<>>
    /\ raised = ""

IdleAuth ==
    /\ environ = [HUGGINGFACEHUB_API_TOKEN |-> Unset, HF_TOKEN |-> Unset,
                  HUGGINGFACE_TOKEN |-> Unset, RADGRAPH_MODEL_ID |-> Unset]
    /\ fn = ""
    /\ loaded = NoLoad

IdleApp ==
    /\ model_type = SidebarDefault
    /\ report_text = "r1"
    /\ show_raw = TRUE
    /\ presses = 0
    /\ ran = FALSE
    /\ status = ""
    /\ ctorArgs = <<>>
    /\ modelCalls = <<>>
    /\ cache = {}

IdleExtract ==
    /\ out = [t |-> "str", hasEntities |-> FALSE, entities |-> NoEntities,
              hasRelations |-> FALSE, relations |-> NoEntities]
    /\ xpc = "ready"
    /\ extracted = NotExtracted

\* The app: the script as first run, then the user's actions.
Init == IdleApp /\ IdleAnnotate /\ IdleAuth /\ IdleExtract

Next ==
    \/ PressAnnotate /\ UNCHANGED <<annVars, authVars, exVars>>
    \/ EditModelType /\ UNCHANGED <<annVars, authVars, exVars>>
    \/ EditReport /\ UNCHANGED <<annVars, authVars, exVars>>
    \/ ToggleShowRaw /\ UNCHANGED <<annVars, authVars, exVars>>

Spec == Init /\ [][Next]_vars

\* radgraph_runner's inference functions, called on any list of reports.
InitAnnotate == InitAnnotateVars /\ IdleAuth /\ IdleApp /\ IdleExtract

NextAnnotate ==
    \/ AnnotateReports /\ UNCHANGED <<authVars, appVars, exVars>>
    \/ NormalizeOutputs /\ UNCHANGED <<authVars, appVars, exVars>>
    \/ NextCall /\ UNCHANGED <<authVars, appVars, exVars>>

SpecAnnotate == InitAnnotate /\ [][NextAnnotate]_vars

\* radgraph_runner's login and loading functions, under any environment.
InitAuth ==
    /\ environ \in Environ
    /\ fn = ""
    /\ loaded = NoLoad
    /\ IdleAnnotate /\ IdleApp /\ IdleExtract

NextAuth ==
    \/ EnsureHfAuth /\ UNCHANGED <<annVars, appVars, exVars>>
    \/ LoadRadgraphModel /\ UNCHANGED <<annVars, appVars, exVars>>
    \/ SetEnviron /\ UNCHANGED <<annVars, appVars, exVars>>

SpecAuth == InitAuth /\ [][NextAuth]_vars

\* _extract_entities_relations on any model output.
InitExtract ==
    /\ out \in ExtractInput
    /\ xpc = "ready"
    /\ extracted = NotExtracted
    /\ IdleAnnotate /\ IdleAuth /\ IdleApp

NextExtract ==
    \/ Extract /\ UNCHANGED <<annVars, authVars, appVars>>
    \/ NextOutput /\ UNCHANGED <<annVars, authVars, appVars>>

SpecExtract == InitExtract /\ [][NextExtract]_vars

\* ------------------------------------------------ claims on SpecAnnotate
\* The shapes C1 names: the list call raised (so raw_outputs is the list the
\* per-string fallback built), or it returned a single dict, a list of one
\* dict per report, or the tuple (model_obj, [annotations]).
NamedShape ==
    LET anns == [i \in 1..Len(reports) |-> AnnDict(reports[i])]
    IN  \/ listCall.raises
        \/ listCall.val \in { AnnDict("*"), PyList("*", anns),
                              PyTuple("*", <<PyObj, PyList("*", anns)>>) }

\* C1: annotate_reports returns a list with exactly one entry per input
\* report, in input order: entry i was computed from reports[i].
C1_OneEntryPerReport ==
    (op = "annotate" /\ raised = "" /\ NamedShape) =>
        /\ Len(result) = Len(reports)
        /\ \A i \in 1..Len(result) : result[i].doc \in {reports[i], "*"}

\* C4: every element of the list normalize_radgraph_outputs returns is a
\* dict, whatever the iterable input and whatever the helper does.
C4_AllDicts ==
    (op \in {"annotate", "normalize"} /\ raised = "") =>
        \A i \in 1..Len(result) : IsDict(result[i])

\* C5 as stated: when the list call raises, annotate_reports does not raise,
\* calls the model once per report in order, and the returned list contains
\* {"error": msg, "input": report} for every report whose own call raised.
C5_ErrorDictsReturned ==
    (op = "annotate" /\ listCall.raises) =>
        /\ raised = ""
        /\ calls = <<CallList>> \o [i \in 1..Len(reports) |-> CallStr(reports[i])]
        /\ \A i \in 1..Len(reports) :
             eachCall[i].raises =>
                \E j \in 1..Len(result) : result[j] = ErrDict(eachCall[i].msg, reports[i])

\* C5 amended: ... the returned list holds, at that report's index, the dict
\* {"error": msg, "input": report} when the helper is absent or raises for
\* it, and otherwise the value the helper returned for that dict.
C5_ErrorDictsOrHelperValue ==
    (op = "annotate" /\ listCall.raises) =>
        /\ raised = ""
        /\ calls = <<CallList>> \o [i \in 1..Len(reports) |-> CallStr(reports[i])]
        /\ \A i \in 1..Len(reports) :
             eachCall[i].raises =>
                /\ Len(result) = Len(reports)
                /\ result[i] =
                     IF helperAvail /\ helperOut[i] # "raise"
                     THEN HelperValue(helperOut[i], ErrDict(eachCall[i].msg, reports[i]))
                     ELSE ErrDict(eachCall[i].msg, reports[i])

\* Two reports whose own calls both raised after the list call raised; the
\* helper returned a value for the first error dict and raised for the second.
C5_Witness ==
    /\ op = "annotate"
    /\ listCall.raises
    /\ Len(reports) = 2
    /\ eachCall[1].raises /\ eachCall[2].raises
    /\ helperAvail /\ helperOut[1] = "dict" /\ helperOut[2] = "raise"
    /\ result[1] = PyDict("proc", reports[1], "", <<>>)
    /\ result[2] = ErrDict(eachCall[2].msg, reports[2])

\* ----------------------------------------------------- claims on SpecAuth
\* The first non-empty of the three token variables, Unset when there is none.
FirstNonEmptyToken ==
    CASE environ.HUGGINGFACEHUB_API_TOKEN \notin {Unset, ""} ->
            environ.HUGGINGFACEHUB_API_TOKEN
      [] environ.HUGGINGFACEHUB_API_TOKEN \in {Unset, ""}
         /\ environ.HF_TOKEN \notin {Unset, ""} -> environ.HF_TOKEN
      [] environ.HUGGINGFACEHUB_API_TOKEN \in {Unset, ""}
         /\ environ.HF_TOKEN \in {Unset, ""}
         /\ environ.HUGGINGFACE_TOKEN \notin {Unset, ""} -> environ.HUGGINGFACE_TOKEN
      [] OTHER -> Unset

\* C6: ensure_hf_auth never raises; it returns True exactly when there is a
\* first non-empty token and the login with that token succeeds; with no
\* token it returns False and hf_login is not called; and in
\* load_radgraph_model a False result is followed by the load attempt (the
\* import of radgraph and, when that succeeds, the RadGraph constructor).
C6_AuthContract ==
    /\ fn \in {"ensure_hf_auth", "load_radgraph_model"} =>
          /\ fn = "ensure_hf_auth" => loaded.raised = ""
          /\ loaded.authRet <=> (FirstNonEmptyToken # Unset /\ ~loaded.loginRaises)
          /\ loaded.logins = IF FirstNonEmptyToken = Unset THEN <<>>
                             ELSE <<FirstNonEmptyToken>>
    /\ (fn = "load_radgraph_model" /\ ~loaded.authRet) =>
          /\ loaded.importTried
          /\ ~loaded.importRaises => Len(loaded.ctorArgs) = 1

\* load_radgraph_model with HUGGINGFACEHUB_API_TOKEN empty and HF_TOKEN set:
\* the login got HF_TOKEN and failed, and RadGraph(...) was still called.
C6_Witness ==
    /\ fn = "load_radgraph_model"
    /\ environ.HUGGINGFACEHUB_API_TOKEN = ""
    /\ environ.HF_TOKEN = "tokA"
    /\ environ.HUGGINGFACE_TOKEN = "tokB"
    /\ loaded.logins = <<"tokA">>
    /\ loaded.loginRaises
    /\ ~loaded.authRet
    /\ loaded.ctorArgs = <<"my-model">>

\* ------------------------------------------------- claims on Spec (the app)
\* C2: a press of Annotate with a non-blank report reaches the RadGraph
\* constructor with model_type equal to the sidebar value, whatever the
\* status the run ends in.
C2_CtorGetsSidebarValue ==
    (ran /\ Strip(report_text) # "") => ctorArgs = <<model_type>>

\* C3: a press of Annotate with a non-blank report completes the model load
\* and then invokes the model object exactly once.
C3_LoadThenInferOnce ==
    (ran /\ Strip(report_text) # "") =>
        /\ model_type \in cache
        /\ Len(modelCalls) = 1

\* -------------------------------------------------- claims on SpecExtract
\* C7: _extract_entities_relations returns two lists without raising for
\* every model output, with empty lists for a value that is no dict.
C7_ExtractTotal ==
    xpc = "done" =>
        /\ extracted.raised = ""
        /\ out.t # "dict" => (extracted.ents = <<>> /\ extracted.rels = <<>>)

=============================================================================
